---- MODULE Spec2Model ----
(***************************************************************************)
(* The HTTP request gateway of python-remove-bg-provider (src/main.py):    *)
(* header authentication, parameter binding, declared-media-type check,    *)
(* the call-out to rembg and the response it builds.                       *)
(*                                                                         *)
(* Text is a TLA+ string; bytes are sequences of integers.  A Python       *)
(* Optional value is a sequence of length at most one: None is <<>> and a  *)
(* present value v is <<v>>.                                               *)
(***************************************************************************)
EXTENDS Integers, Sequences, FiniteSets, TLC

VARIABLES
    environ,    \* the X_API_KEY entry of the process environment (Optional)
    API_KEY,    \* the module global read from it at import time
    inflight,   \* the request being handled by each connection slot
    client      \* what the test client and its rembg mocks have recorded

vars == <<environ, API_KEY, inflight, client>>

-----------------------------------------------------------------------------
(* Bounds of the model *)

MaxInFlight == 2     \* connection slots
MaxFileLen == 1      \* longest uploaded payload, in bytes
MaxRequests == 3     \* requests a recording test client sends

-----------------------------------------------------------------------------
(* Python values *)

None == <<>>
Some(v) == <<v>>

\* bool(x) of an Optional[str]: None and '' are falsy
Truthy(o) == o # None /\ o[1] # ""

\* s.startswith(p)
startswith(s, p) == Len(s) >= Len(p) /\ SubSeq(s, 1, Len(p)) = p

UpperCase == "ABCDEFGHIJKLMNOPQRSTUVWXYZ"
LowerCase == "abcdefghijklmnopqrstuvwxyz"

\* the lower-case letter of each upper-case letter
LowerOf ==
    [c \in {SubSeq(UpperCase, k, k) : k \in 1..Len(UpperCase)} |->
        LET k == CHOOSE k \in 1..Len(UpperCase) : SubSeq(UpperCase, k, k) = c
        IN  SubSeq(LowerCase, k, k)]

LowerChar(c) == IF c \in DOMAIN LowerOf THEN LowerOf[c] ELSE c

\* s.lower()
RECURSIVE lower(_)
lower(s) == IF s = "" THEN ""
            ELSE LowerChar(SubSeq(s, 1, 1)) \o lower(SubSeq(s, 2, Len(s)))

\* str(x) of an Optional[str], as an f-string formats it
FormatStr(o) == IF o = None THEN "None" ELSE o[1]

\* x or d
OrElse(o, d) == IF Truthy(o) THEN o[1] ELSE d

-----------------------------------------------------------------------------
(* The requests a client can send *)

TestKey == "test-api-key-12345"

EnvValues == {None, Some(""), Some(TestKey)}

Routes == {"GET /", "GET /health", "GET /models",
           "POST /bg/remove", "POST /bg/remove-advanced"}

UploadRoutes == {"POST /bg/remove", "POST /bg/remove-advanced"}

HeaderNames == {"X-API-Key", "x-api-key", "X-Other"}

\* the header lists a request carries: <<name, value>> pairs
HeaderLists ==
    {<<>>} \cup
    {<< <<"X-API-Key", v>> >> : v \in {"", TestKey, "wrong-key", "TEST-API-KEY-12345"}} \cup
    {<< <<"x-api-key", TestKey>> >>, << <<"X-Other", TestKey>> >>}

RECURSIVE SeqsUpTo(_, _)
SeqsUpTo(S, n) ==
    IF n = 0 THEN {<<>>}
    ELSE LET shorter == SeqsUpTo(S, n - 1)
         IN  shorter \cup {Append(s, x) : s \in shorter, x \in S}

Payloads == SeqsUpTo({255}, MaxFileLen)

Filenames == {None, Some(""), Some("a.png")}

ContentTypes == {None, Some("image/png"), Some("image/jpeg"), Some("text/plain")}

\* the multipart part named file: absent, or an upload
Uploads ==
    {None} \cup
    {Some([filename |-> f, content_type |-> t, content |-> c]) :
        f \in Filenames, t \in ContentTypes, c \in Payloads}

\* option values as they appear in the query string
QueryOptions ==
    [model : {None, Some("silueta"), Some("")},
     alpha_matting : {None, Some(TRUE)},
     alpha_matting_foreground_threshold : {None, Some(-5)},
     alpha_matting_background_threshold : {None, Some(300)},
     alpha_matting_erode_size : {None, Some(0)}]

NoOptions == [model |-> None, alpha_matting |-> None,
              alpha_matting_foreground_threshold |-> None,
              alpha_matting_background_threshold |-> None,
              alpha_matting_erode_size |-> None]

\* option values as they appear as multipart form fields: none, or the
\* fields tests/test_integration.py sends
FormOptions ==
    {NoOptions,
     [model |-> Some("isnet-general-use"), alpha_matting |-> Some(TRUE),
      alpha_matting_foreground_threshold |-> Some(200),
      alpha_matting_background_threshold |-> Some(15),
      alpha_matting_erode_size |-> Some(5)]}

Requests ==
    [route : Routes \ UploadRoutes, headers : HeaderLists,
     file : {None}, query : {NoOptions}, form : {NoOptions}]
    \cup
    [route : UploadRoutes, headers : HeaderLists,
     file : Uploads, query : QueryOptions, form : FormOptions]

-----------------------------------------------------------------------------
(* Responses and exceptions *)

NoHeaders == [h \in {} |-> ""]

\* a JSON response, as FastAPI serialises a returned dict or an error
JSONResponse(status_code, content) ==
    [status_code |-> status_code, media_type |-> "application/json",
     headers |-> NoHeaders, body |-> content]

HTTPException(status_code, detail) ==
    [type |-> "HTTPException", status_code |-> status_code, detail |-> detail]

\* any other exception, with the text str(e) gives
Exception(text) == [type |-> "Exception", text |-> text]

\* fault: the error text is sent under the name message
ExceptionResponse_Message(e) == JSONResponse(e.status_code, [message |-> e.detail])

\* FastAPI's answer to an HTTPException that leaves a handler or a dependency
ExceptionResponse(e) == JSONResponse(e.status_code, [detail |-> e.detail])

\* fault: a missing file is reported as a bad request
MissingFileResponse_BadRequest ==
    JSONResponse(400, [detail |-> << [type |-> "missing", loc |-> <<"body", "file">>] >>])

\* FastAPI's answer when the required multipart part file is missing
MissingFileResponse ==
    JSONResponse(422, [detail |-> << [type |-> "missing", loc |-> <<"body", "file">>] >>])

Returned(v) == [raised |-> FALSE, value |-> v]
Raised(e) == [raised |-> TRUE, exc |-> e]

-----------------------------------------------------------------------------
(* src/main.py *)

\* API_KEY = os.getenv("X_API_KEY")
getenv(env) == env

\* fault: the header name is matched letter for letter
HeaderXApiKey_ExactName(headers) ==
    LET hits == {k \in 1..Len(headers) : headers[k][1] = "X-API-Key"}
    IN  IF hits = {} THEN None
        ELSE Some(headers[CHOOSE k \in hits : \A j \in hits : k <= j][2])

\* the value FastAPI binds to x_api_key: the first header whose name is
\* x-api-key in any letter case, else the default None
HeaderXApiKey(headers) ==
    LET hits == {k \in 1..Len(headers) : lower(headers[k][1]) = "x-api-key"}
    IN  IF hits = {} THEN None
        ELSE Some(headers[CHOOSE k \in hits : \A j \in hits : k <= j][2])

\* fault: only a missing header counts as missing (x_api_key is None)
verify_api_key_EmptyCompared(key, x_api_key) ==
    IF ~Truthy(key) THEN Returned(TRUE)
    ELSE IF x_api_key = None
         THEN Raised(HTTPException(401, "X-API-Key header is required"))
    ELSE IF x_api_key[1] # key[1]
         THEN Raised(HTTPException(401, "Invalid API key"))
    ELSE Returned(TRUE)

\* fault: the key is compared without regard to letter case
verify_api_key_IgnoreCase(key, x_api_key) ==
    IF ~Truthy(key) THEN Returned(TRUE)
    ELSE IF ~Truthy(x_api_key)
         THEN Raised(HTTPException(401, "X-API-Key header is required"))
    ELSE IF lower(x_api_key[1]) # lower(key[1])
         THEN Raised(HTTPException(401, "Invalid API key"))
    ELSE Returned(TRUE)

\* fault: the check for an unconfigured key is missing
verify_api_key_NoDevMode(key, x_api_key) ==
    IF ~Truthy(x_api_key)
    THEN Raised(HTTPException(401, "X-API-Key header is required"))
    ELSE IF x_api_key # key
         THEN Raised(HTTPException(401, "Invalid API key"))
    ELSE Returned(TRUE)

\* fault: the secret is read from the environment at each request
verify_api_key_ReadsEnviron(key, x_api_key) ==
    IF ~Truthy(getenv(environ)) THEN Returned(TRUE)
    ELSE IF ~Truthy(x_api_key)
         THEN Raised(HTTPException(401, "X-API-Key header is required"))
    ELSE IF x_api_key[1] # getenv(environ)[1]
         THEN Raised(HTTPException(401, "Invalid API key"))
    ELSE Returned(TRUE)

\* fault: only an unset key opens the service (if API_KEY is None)
verify_api_key_NoneOnly(key, x_api_key) ==
    IF key = None THEN Returned(TRUE)
    ELSE IF ~Truthy(x_api_key)
         THEN Raised(HTTPException(401, "X-API-Key header is required"))
    ELSE IF x_api_key[1] # key[1]
         THEN Raised(HTTPException(401, "Invalid API key"))
    ELSE Returned(TRUE)

verify_api_key(key, x_api_key) ==
    IF ~Truthy(key) THEN Returned(TRUE)
    ELSE IF ~Truthy(x_api_key)
         THEN Raised(HTTPException(401, "X-API-Key header is required"))
    ELSE IF x_api_key[1] # key[1]
         THEN Raised(HTTPException(401, "Invalid API key"))
    ELSE Returned(TRUE)

DefaultModel == "u2net"
DefaultAlphaMatting == FALSE
DefaultForegroundThreshold == 240
DefaultBackgroundThreshold == 10
DefaultErodeSize == 10

\* a parameter declared with a plain default is read from the query string
QueryParam(q, default) == IF q = None THEN default ELSE q[1]

\* fault: a model name that GET /models does not list is replaced by the default
BindArguments_KnownModelsOnly(req) ==
    [file |-> req.file[1],
     model |->
        IF QueryParam(req.query.model, DefaultModel)
              \in {"u2net", "u2net_human_seg", "silueta", "isnet-general-use"}
        THEN QueryParam(req.query.model, DefaultModel)
        ELSE DefaultModel,
     alpha_matting |-> QueryParam(req.query.alpha_matting, DefaultAlphaMatting),
     alpha_matting_foreground_threshold |->
         QueryParam(req.query.alpha_matting_foreground_threshold, DefaultForegroundThreshold),
     alpha_matting_background_threshold |->
         QueryParam(req.query.alpha_matting_background_threshold, DefaultBackgroundThreshold),
     alpha_matting_erode_size |->
         QueryParam(req.query.alpha_matting_erode_size, DefaultErodeSize)]

\* the arguments FastAPI binds for remove_background and
\* remove_background_advanced; multipart form fields other than file
\* are bound to no parameter
BindArguments(req) ==
    [file |-> req.file[1],
     model |-> QueryParam(req.query.model, DefaultModel),
     alpha_matting |-> QueryParam(req.query.alpha_matting, DefaultAlphaMatting),
     alpha_matting_foreground_threshold |->
         QueryParam(req.query.alpha_matting_foreground_threshold, DefaultForegroundThreshold),
     alpha_matting_background_threshold |->
         QueryParam(req.query.alpha_matting_background_threshold, DefaultBackgroundThreshold),
     alpha_matting_erode_size |->
         QueryParam(req.query.alpha_matting_erode_size, DefaultErodeSize)]

root == [message |-> "Python Remove Background Provider", status |-> "running"]

health_check == [status |-> "healthy", service |-> "python-remove-bg-provider"]

list_available_models ==
    [models |-> <<
        [name |-> "u2net",
         description |-> "General purpose model, good balance of speed and quality"],
        [name |-> "u2net_human_seg",
         description |-> "Optimized for human subjects"],
        [name |-> "silueta",
         description |-> "Good for portraits and people"],
        [name |-> "isnet-general-use",
         description |-> "High quality general purpose model"] >>]

\* fault: any declared media type is accepted
IsImageUpload_AnyDeclaredType(file) == Truthy(file.content_type)

\* if not file.content_type or not file.content_type.startswith('image/')
IsImageUpload(file) ==
    Truthy(file.content_type) /\ startswith(file.content_type[1], "image/")

\* fault: the import failure is reported as a processing error
NotInstalledDetail_ProcessingError == "Error processing image: No module named 'rembg'"

\* the detail of the HTTPException raised when rembg cannot be imported
NotInstalledDetail == "rembg not installed. Please install with: pip install rembg"

\* fault: the text of the exception is left out of the detail
HandlerException_NoText(e) ==
    IF e.type = "HTTPException" THEN e
    ELSE HTTPException(500, "Error processing image: ")

\* fault: an HTTPException is wrapped like any other exception
HandlerException_WrapAll(e) ==
    HTTPException(500, "Error processing image: "
                       \o (IF e.type = "HTTPException" THEN e.detail ELSE e.text))

\* except HTTPException: raise / except Exception as e: raise HTTPException(500, ...)
HandlerException(e) ==
    IF e.type = "HTTPException" THEN e
    ELSE HTTPException(500, "Error processing image: " \o e.text)

\* fault: the thresholds and the erode size are clamped to the range of a byte
RemoveKwargs_Clamped(args, session) ==
    LET clamp(v) == IF v < 0 THEN 0 ELSE IF v > 255 THEN 255 ELSE v
    IN  IF args.alpha_matting
        THEN [session |-> session,
              alpha_matting |-> args.alpha_matting,
              alpha_matting_foreground_threshold |->
                  clamp(args.alpha_matting_foreground_threshold),
              alpha_matting_background_threshold |->
                  clamp(args.alpha_matting_background_threshold),
              alpha_matting_erode_size |-> clamp(args.alpha_matting_erode_size)]
        ELSE [session |-> session]

\* fault: the alpha matting arguments are passed whether it is enabled or not
RemoveKwargs_AlwaysForward(args, session) ==
    [session |-> session,
     alpha_matting |-> args.alpha_matting,
     alpha_matting_foreground_threshold |-> args.alpha_matting_foreground_threshold,
     alpha_matting_background_threshold |-> args.alpha_matting_background_threshold,
     alpha_matting_erode_size |-> args.alpha_matting_erode_size]

\* the keyword arguments of the call of remove
RemoveKwargs(args, session) ==
    IF args.alpha_matting
    THEN [session |-> session,
          alpha_matting |-> args.alpha_matting,
          alpha_matting_foreground_threshold |-> args.alpha_matting_foreground_threshold,
          alpha_matting_background_threshold |-> args.alpha_matting_background_threshold,
          alpha_matting_erode_size |-> args.alpha_matting_erode_size]
    ELSE [session |-> session]

\* fault: the last byte of the output is not sent
SuccessResponse_Truncated(args, output) ==
    [status_code |-> 200, media_type |-> "image/png",
     headers |->
        ("Content-Disposition" :>
            ("attachment; filename=bg_removed_" \o FormatStr(args.file.filename)))
        @@ ("X-Original-Filename" :> OrElse(args.file.filename, "image"))
        @@ ("X-Model-Used" :> args.model),
     body |-> IF output = <<>> THEN <<>> ELSE SubSeq(output, 1, Len(output) - 1)]

\* fault: X-Original-Filename is the filename as formatted, with no fallback
SuccessResponse_RawFilename(args, output) ==
    [status_code |-> 200, media_type |-> "image/png",
     headers |->
        ("Content-Disposition" :>
            ("attachment; filename=bg_removed_" \o FormatStr(args.file.filename)))
        @@ ("X-Original-Filename" :> FormatStr(args.file.filename))
        @@ ("X-Model-Used" :> args.model),
     body |-> output]

\* fault: the response echoes the media type of the upload
SuccessResponse_EchoType(args, output) ==
    [status_code |-> 200, media_type |-> args.file.content_type[1],
     headers |->
        ("Content-Disposition" :>
            ("attachment; filename=bg_removed_" \o FormatStr(args.file.filename)))
        @@ ("X-Original-Filename" :> OrElse(args.file.filename, "image"))
        @@ ("X-Model-Used" :> args.model),
     body |-> output]

\* fault: X-Model-Used names the default model, not the one used
SuccessResponse_DefaultModel(args, output) ==
    [status_code |-> 200, media_type |-> "image/png",
     headers |->
        ("Content-Disposition" :>
            ("attachment; filename=bg_removed_" \o FormatStr(args.file.filename)))
        @@ ("X-Original-Filename" :> OrElse(args.file.filename, "image"))
        @@ ("X-Model-Used" :> DefaultModel),
     body |-> output]

\* return Response(content=output, media_type="image/png", headers={...})
SuccessResponse(args, output) ==
    [status_code |-> 200, media_type |-> "image/png",
     headers |->
        ("Content-Disposition" :>
            ("attachment; filename=bg_removed_" \o FormatStr(args.file.filename)))
        @@ ("X-Original-Filename" :> OrElse(args.file.filename, "image"))
        @@ ("X-Model-Used" :> args.model),
     body |-> output]

-----------------------------------------------------------------------------
(* The rembg collaborator: what a call of it can do *)

\* the texts of the exceptions the tests make rembg raise, and the empty text
ExceptionTexts == {"Processing failed", "rembg not installed", ""}

RemoveOutputs == {<<137, 80>>, <<>>}

\* a session object of rembg, created for a model name by the request in slot i
Session(model, i) == [model_name |-> model, created_by |-> i]

\* new_session(model): returns a session or raises
NewSessionOutcomes(model, i) ==
    {Returned(Session(model, i))} \cup {Raised(Exception(t)) : t \in ExceptionTexts}

\* remove(data, **kwargs): returns the processed bytes or raises
RemoveOutcomes ==
    {Returned(out) : out \in RemoveOutputs} \cup {Raised(Exception(t)) : t \in ExceptionTexts}

-----------------------------------------------------------------------------
(* State *)

Slots == 1..MaxInFlight

IdleSlot ==
    [pc |-> "idle", req |-> None, args |-> None, file_content |-> None,
     imported |-> None, session |-> None, calls |-> <<>>, resp |-> None]

\* a test client before its first request: nothing delivered, the call
\* counts of the mocks at zero
NewClient ==
    [delivered |-> 0, ok |-> 0, new_session_call_count |-> 0,
     remove_call_count |-> 0, seen |-> {}, first |-> None]

Init ==
    /\ environ \in EnvValues
    /\ API_KEY = getenv(environ)
    /\ inflight = [i \in Slots |-> IdleSlot]
    /\ client = NewClient

\* the handler in slot i ends with response r
Respond(i, r) ==
    inflight' = [inflight EXCEPT ![i].pc = "done", ![i].resp = Some(r)]

\* the handler in slot i ends by raising e
Raise(i, e) == Respond(i, ExceptionResponse(HandlerException(e)))

-----------------------------------------------------------------------------
(* Routing and dependency resolution: FastAPI runs the dependency          *)
(* verify_api_key of a protected route first, then validates the route's   *)
(* own parameters, then calls the route's function                         *)

\* fault: every route depends on verify_api_key
RequiresApiKey_Everywhere(route) == TRUE

\* the routes declared with Depends(verify_api_key)
RequiresApiKey(route) ==
    route \in {"POST /bg/remove", "POST /bg/remove-advanced", "GET /models"}

\* fault: once a request was answered 401 every protected route stays closed
Dispatch_Lockout(req, key) ==
    LET auth == verify_api_key(key, HeaderXApiKey(req.headers))
    IN  IF RequiresApiKey(req.route) /\ (auth.raised \/ 401 \in client.seen)
        THEN Returned(ExceptionResponse(HTTPException(401, "Invalid API key")))
        ELSE IF req.route = "GET /" THEN Returned(JSONResponse(200, root))
        ELSE IF req.route = "GET /health" THEN Returned(JSONResponse(200, health_check))
        ELSE IF req.route = "GET /models"
             THEN Returned(JSONResponse(200, list_available_models))
        ELSE IF req.file = None THEN Returned(MissingFileResponse)
        ELSE [raised |-> FALSE, call |-> req.route, args |-> BindArguments(req)]

Dispatch(req, key) ==
    LET auth == verify_api_key(key, HeaderXApiKey(req.headers))
    IN  IF RequiresApiKey(req.route) /\ auth.raised
        THEN Returned(ExceptionResponse(auth.exc))
        ELSE IF req.route = "GET /" THEN Returned(JSONResponse(200, root))
        ELSE IF req.route = "GET /health" THEN Returned(JSONResponse(200, health_check))
        ELSE IF req.route = "GET /models"
             THEN Returned(JSONResponse(200, list_available_models))
        ELSE IF req.file = None THEN Returned(MissingFileResponse)
        ELSE [raised |-> FALSE, call |-> req.route, args |-> BindArguments(req)]

\* the slot of a request that has been routed: answered already, or at the
\* entry of the route's function
Received(req, key) ==
    LET d == Dispatch(req, key)
    IN  IF "value" \in DOMAIN d
        THEN [IdleSlot EXCEPT !.pc = "done", !.req = Some(req), !.resp = Some(d.value)]
        ELSE [IdleSlot EXCEPT !.req = Some(req), !.args = Some(d.args),
                  !.pc = IF d.call = "POST /bg/remove-advanced"
                         THEN "remove_background_advanced"
                         ELSE "remove_background"]

\* a request arrives on the idle slot i and is routed
Receive(i, req) ==
    /\ inflight[i].pc = "idle"
    /\ inflight' = [inflight EXCEPT ![i] = Received(req, API_KEY)]
    /\ UNCHANGED <<environ, API_KEY, client>>

\* fault: the options are not passed on, remove_background runs with its defaults
remove_background_advanced_DropsOptions(i) ==
    /\ inflight[i].pc = "remove_background_advanced"
    /\ inflight' = [inflight EXCEPT
            ![i].pc = "remove_background",
            ![i].args = Some([file |-> @[1].file,
                              model |-> DefaultModel,
                              alpha_matting |-> DefaultAlphaMatting,
                              alpha_matting_foreground_threshold |-> DefaultForegroundThreshold,
                              alpha_matting_background_threshold |-> DefaultBackgroundThreshold,
                              alpha_matting_erode_size |-> DefaultErodeSize])]
    /\ UNCHANGED <<environ, API_KEY, client>>

\* return await remove_background(file=file, model=model, ...)
remove_background_advanced(i) ==
    /\ inflight[i].pc = "remove_background_advanced"
    /\ inflight' = [inflight EXCEPT ![i].pc = "remove_background"]
    /\ UNCHANGED <<environ, API_KEY, client>>

\* fault: the file is read whatever its declared media type is
ValidateAndRead_NoCheck(i) ==
    /\ inflight[i].pc = "remove_background"
    /\ inflight' = [inflight EXCEPT
            ![i].pc = "import",
            ![i].file_content = Some(inflight[i].args[1].file.content)]
    /\ UNCHANGED <<environ, API_KEY, client>>

\* remove_background: the declared media type is checked and the file read
ValidateAndRead(i) ==
    /\ inflight[i].pc = "remove_background"
    /\ LET file == inflight[i].args[1].file
       IN  IF ~IsImageUpload(file)
           THEN Raise(i, HTTPException(400, "File must be an image"))
           ELSE inflight' = [inflight EXCEPT ![i].pc = "import",
                                             ![i].file_content = Some(file.content)]
    /\ UNCHANGED <<environ, API_KEY, client>>

\* remove_background: from rembg import remove, new_session
ImportRembg(i) ==
    /\ inflight[i].pc = "import"
    /\ \E installed \in BOOLEAN :
         IF installed
         THEN inflight' = [inflight EXCEPT ![i].pc = "new_session",
                                           ![i].imported = Some(TRUE)]
         ELSE \* except ImportError: raise HTTPException(500, ...)
              inflight' = [inflight EXCEPT
                  ![i].pc = "done", ![i].imported = Some(FALSE),
                  ![i].resp = Some(ExceptionResponse(HandlerException(
                      HTTPException(500, NotInstalledDetail))))]
    /\ UNCHANGED <<environ, API_KEY, client>>

\* fault: when new_session raises, the handler goes on with a default session
NewSession_SwallowsError(i) ==
    /\ inflight[i].pc = "new_session"
    /\ LET args == inflight[i].args[1]
       IN  \E outcome \in NewSessionOutcomes(args.model, i) :
             LET call == [fn |-> "new_session", args |-> <<args.model>>,
                          outcome |-> outcome]
             IN  inflight' = [inflight EXCEPT
                     ![i].pc = "remove",
                     ![i].calls = Append(@, call),
                     ![i].session = IF outcome.raised
                                    THEN Some(Session(DefaultModel, i))
                                    ELSE Some(outcome.value)]
    /\ UNCHANGED <<environ, API_KEY, client>>

\* fault: the session of another request in flight is used when there is one
NewSession_SharedSession(i) ==
    /\ inflight[i].pc = "new_session"
    /\ LET args == inflight[i].args[1]
           others == {j \in Slots : j # i /\ inflight[j].session # None}
       IN  \E outcome \in NewSessionOutcomes(args.model, i) :
             LET call == [fn |-> "new_session", args |-> <<args.model>>,
                          outcome |-> outcome]
             IN  IF outcome.raised
                 THEN inflight' = [inflight EXCEPT
                          ![i].pc = "done",
                          ![i].calls = Append(@, call),
                          ![i].resp = Some(ExceptionResponse(HandlerException(outcome.exc)))]
                 ELSE inflight' = [inflight EXCEPT
                          ![i].pc = "remove",
                          ![i].calls = Append(@, call),
                          ![i].session =
                              IF others = {} THEN Some(outcome.value)
                              ELSE inflight[CHOOSE j \in others : TRUE].session]
    /\ UNCHANGED <<environ, API_KEY, client>>

\* remove_background: session = new_session(model)
NewSession(i) ==
    /\ inflight[i].pc = "new_session"
    /\ LET args == inflight[i].args[1]
       IN  \E outcome \in NewSessionOutcomes(args.model, i) :
             LET call == [fn |-> "new_session", args |-> <<args.model>>,
                          outcome |-> outcome]
             IN  IF outcome.raised
                 THEN inflight' = [inflight EXCEPT
                          ![i].pc = "done",
                          ![i].calls = Append(@, call),
                          ![i].resp = Some(ExceptionResponse(HandlerException(outcome.exc)))]
                 ELSE inflight' = [inflight EXCEPT
                          ![i].pc = "remove",
                          ![i].calls = Append(@, call),
                          ![i].session = Some(outcome.value)]
    /\ UNCHANGED <<environ, API_KEY, client>>

\* fault: when remove raises, the processing starts over with a new session
Remove_StartsOver(i) ==
    /\ inflight[i].pc = "remove"
    /\ LET args == inflight[i].args[1]
       IN  \E outcome \in RemoveOutcomes :
             LET call == [fn |-> "remove", args |-> <<inflight[i].file_content[1]>>,
                          kwargs |-> RemoveKwargs(args, inflight[i].session[1]),
                          outcome |-> outcome]
             IN  IF outcome.raised
                 THEN inflight' = [inflight EXCEPT
                          ![i].pc = "new_session",
                          ![i].calls = <<>>,
                          ![i].session = None]
                 ELSE inflight' = [inflight EXCEPT
                          ![i].pc = "done",
                          ![i].calls = Append(@, call),
                          ![i].resp = Some(SuccessResponse(args, outcome.value))]
    /\ UNCHANGED <<environ, API_KEY, client>>

\* fault: a call of remove that raised is made once more
Remove_Retry(i) ==
    /\ inflight[i].pc = "remove"
    /\ LET args == inflight[i].args[1]
       IN  \E outcome \in RemoveOutcomes :
             LET call == [fn |-> "remove", args |-> <<inflight[i].file_content[1]>>,
                          kwargs |-> RemoveKwargs(args, inflight[i].session[1]),
                          outcome |-> outcome]
             IN  IF outcome.raised /\ Len(inflight[i].calls) < 2
                 THEN inflight' = [inflight EXCEPT ![i].calls = Append(@, call)]
                 ELSE inflight' = [inflight EXCEPT
                          ![i].pc = "done",
                          ![i].calls = Append(@, call),
                          ![i].resp = Some(IF outcome.raised
                                           THEN ExceptionResponse(HandlerException(outcome.exc))
                                           ELSE SuccessResponse(args, outcome.value))]
    /\ UNCHANGED <<environ, API_KEY, client>>

\* remove_background: output = remove(file_content, ...) and the response
Remove(i) ==
    /\ inflight[i].pc = "remove"
    /\ LET args == inflight[i].args[1]
       IN  \E outcome \in RemoveOutcomes :
             LET call == [fn |-> "remove", args |-> <<inflight[i].file_content[1]>>,
                          kwargs |-> RemoveKwargs(args, inflight[i].session[1]),
                          outcome |-> outcome]
             IN  inflight' = [inflight EXCEPT
                     ![i].pc = "done",
                     ![i].calls = Append(@, call),
                     ![i].resp = Some(IF outcome.raised
                                      THEN ExceptionResponse(HandlerException(outcome.exc))
                                      ELSE SuccessResponse(args, outcome.value))]
    /\ UNCHANGED <<environ, API_KEY, client>>

\* the response is sent and the slot is free again
Deliver(i) ==
    /\ inflight[i].pc = "done"
    /\ inflight' = [inflight EXCEPT ![i] = IdleSlot]
    /\ UNCHANGED <<environ, API_KEY, client>>

\* a client that waits for each response before it sends the next request
Arrive ==
    /\ \A j \in Slots : inflight[j].pc = "idle"
    /\ \E req \in Requests : Receive(1, req)

Step == \E i \in Slots :
    \/ remove_background_advanced(i)
    \/ ValidateAndRead(i)
    \/ ImportRembg(i)
    \/ NewSession(i)
    \/ Remove(i)
    \/ Deliver(i)

Next == Arrive \/ Step

Spec == Init /\ [][Next]_vars

-----------------------------------------------------------------------------
(* The same request sent to POST /bg/remove and to POST /bg/remove-advanced *)

KeyHeaderLists ==
    {<<>>, << <<"X-API-Key", TestKey>> >>, << <<"X-API-Key", "wrong-key">> >>}

AliasUploads ==
    {None} \cup
    {Some([filename |-> f, content_type |-> t, content |-> <<255>>]) :
        f \in Filenames, t \in {None, Some("image/png"), Some("text/plain")}}

AliasQueries ==
    {NoOptions,
     [NoOptions EXCEPT !.model = Some("silueta")],
     [NoOptions EXCEPT !.alpha_matting = Some(TRUE)],
     [model |-> Some("silueta"), alpha_matting |-> Some(TRUE),
      alpha_matting_foreground_threshold |-> Some(-5),
      alpha_matting_background_threshold |-> Some(300),
      alpha_matting_erode_size |-> Some(0)]}

AliasRequests ==
    [route : {"POST /bg/remove"}, headers : KeyHeaderLists,
     file : AliasUploads, query : AliasQueries, form : FormOptions]

\* one request arrives at POST /bg/remove on slot 1 and, with the route
\* changed, at POST /bg/remove-advanced on slot 2
ArriveTwins ==
    /\ \A j \in Slots : inflight[j].pc = "idle"
    /\ \E req \in AliasRequests :
         inflight' = [j \in Slots |->
            IF j = 1 THEN Received(req, API_KEY)
            ELSE IF j = 2
                 THEN Received([req EXCEPT !.route = "POST /bg/remove-advanced"], API_KEY)
                 ELSE IdleSlot]
    /\ UNCHANGED <<environ, API_KEY, client>>

NextAlias == ArriveTwins \/ Step

SpecAlias == Init /\ [][NextAlias]_vars

-----------------------------------------------------------------------------
(* Vocabulary of the properties *)

Busy(i) == inflight[i].req # None
Answered(i) == inflight[i].resp # None
Req(i) == inflight[i].req[1]
Resp(i) == inflight[i].resp[1]
Calls(i) == inflight[i].calls

SecretConfigured == API_KEY # None /\ API_KEY[1] # ""

\* the header names that spell X-API-Key in some letter case
KeyHeaderNames == {n \in HeaderNames : lower(n) = "x-api-key"}

\* the request carries a header named X-API-Key, in any letter case, of value v
KeyHeaderIs(req, v) ==
    \E k \in DOMAIN req.headers :
        req.headers[k][1] \in KeyHeaderNames /\ req.headers[k][2] = v

KeyHeaderAbsentOrEmpty(req) ==
    \A k \in DOMAIN req.headers :
        req.headers[k][1] \in KeyHeaderNames => req.headers[k][2] = ""

\* the request carries the configured secret, or none is configured
Authenticated(req) == ~SecretConfigured \/ KeyHeaderIs(req, API_KEY[1])

DeclaredImage(upload) ==
    upload.content_type # None /\ startswith(upload.content_type[1], "image/")

\* s has sub as a substring
Contains(s, sub) ==
    \E k \in 1..(Len(s) - Len(sub) + 1) : SubSeq(s, k, k + Len(sub) - 1) = sub

\* v is a JSON string: TLC writes a string, and no other value, in double quotes
IsJsonString(v) == SubSeq(ToString(v), 1, 1) = "\""

\* the request in slot i was answered 200 by POST /bg/remove
RemoveSucceeded(i) ==
    /\ Answered(i)
    /\ Req(i).route = "POST /bg/remove"
    /\ Resp(i).status_code = 200

\* what rembg did for the request in slot i: whether it could be imported
\* and the outcome of each call, a session being named by its model
Behaviour(i) ==
    [imported |-> inflight[i].imported,
     outcomes |-> [k \in DOMAIN Calls(i) |->
         IF Calls(i)[k].fn = "new_session" /\ ~Calls(i)[k].outcome.raised
         THEN Returned(Calls(i)[k].outcome.value.model_name)
         ELSE Calls(i)[k].outcome]]

\* the calls the request in slot i made: function, arguments and keyword
\* arguments, a session being named by its model
Invocations(i) ==
    [k \in DOMAIN Calls(i) |->
        IF Calls(i)[k].fn = "remove"
        THEN [fn |-> "remove", args |-> Calls(i)[k].args,
              kwargs |-> [Calls(i)[k].kwargs EXCEPT !.session = @.model_name]]
        ELSE [fn |-> Calls(i)[k].fn, args |-> Calls(i)[k].args]]

\* the model names GET /models lists
ListedModels ==
    {list_available_models.models[k].name : k \in DOMAIN list_available_models.models}

\* the value bound to an option of the request: its query value, else the default
Bound(req, option, default) ==
    IF req.query[option] = None THEN default ELSE req.query[option][1]

\* the number of calls of fn in a call log
CallCount(calls, fn) == Cardinality({k \in DOMAIN calls : calls[k].fn = fn})

-----------------------------------------------------------------------------
(* A test client that records what it gets: the responses delivered to it   *)
(* and the call counts of its mocks of new_session and remove               *)

\* the exchange in slot i: the request, what rembg did and the response
Exchange(i) == [req |-> Req(i), behaviour |-> Behaviour(i), resp |-> Resp(i)]

\* the response of slot i reaches the client, which records it
DeliverClient(i) ==
    /\ inflight[i].pc = "done"
    /\ client' =
         [delivered |-> client.delivered + 1,
          ok |-> client.ok + (IF Req(i).route \in UploadRoutes /\ Resp(i).status_code = 200
                              THEN 1 ELSE 0),
          new_session_call_count |->
              client.new_session_call_count + CallCount(Calls(i), "new_session"),
          remove_call_count |->
              client.remove_call_count + CallCount(Calls(i), "remove"),
          seen |-> client.seen \cup {Resp(i).status_code},
          first |-> IF client.first = None THEN Some(Exchange(i)) ELSE client.first]
    /\ inflight' = [inflight EXCEPT ![i] = IdleSlot]
    /\ UNCHANGED <<environ, API_KEY>>

ValidHeaders == << <<"X-API-Key", TestKey>> >>

ImageUpload == Some([filename |-> Some("a.png"), content_type |-> Some("image/png"),
                     content |-> <<137>>])

\* the requests of the error-recovery and workflow tests
ClientRequests ==
    {[route |-> "GET /health", headers |-> <<>>, file |-> None,
      query |-> NoOptions, form |-> NoOptions],
     [route |-> "GET /models", headers |-> << <<"X-API-Key", "wrong-key">> >>,
      file |-> None, query |-> NoOptions, form |-> NoOptions],
     [route |-> "POST /bg/remove", headers |-> ValidHeaders, file |-> ImageUpload,
      query |-> NoOptions, form |-> NoOptions],
     [route |-> "POST /bg/remove", headers |-> ValidHeaders,
      file |-> Some([filename |-> Some("test.txt"), content_type |-> Some("text/plain"),
                     content |-> <<255>>]),
      query |-> NoOptions, form |-> NoOptions],
     [route |-> "POST /bg/remove", headers |-> ValidHeaders, file |-> None,
      query |-> NoOptions, form |-> NoOptions],
     [route |-> "POST /bg/remove-advanced", headers |-> ValidHeaders, file |-> ImageUpload,
      query |-> [NoOptions EXCEPT !.model = Some("silueta")], form |-> NoOptions]}

\* the client sends its next request when the last one has been answered
ArriveClient ==
    /\ \A j \in Slots : inflight[j].pc = "idle"
    /\ client.delivered < MaxRequests
    /\ \E req \in ClientRequests : Receive(1, req)

HandlerStep == \E i \in Slots :
    \/ remove_background_advanced(i)
    \/ ValidateAndRead(i)
    \/ ImportRembg(i)
    \/ NewSession(i)
    \/ Remove(i)

NextClient == ArriveClient \/ HandlerStep \/ \E i \in Slots : DeliverClient(i)

SpecClient == Init /\ [][NextClient]_vars

-----------------------------------------------------------------------------
(* The environment changes while the service runs *)

\* X_API_KEY is set to another value, or unset, in the running process
SetEnv ==
    /\ \E v \in EnvValues \ {environ} : environ' = v
    /\ UNCHANGED <<API_KEY, inflight, client>>

NextEnv == NextClient \/ SetEnv

SpecEnv == Init /\ [][NextEnv]_vars

-----------------------------------------------------------------------------
(* The event loop runs every handler that can take a step *)

SpecLive == SpecClient /\ WF_vars(HandlerStep)

-----------------------------------------------------------------------------
(* Requests handled concurrently: threads of one client, each on a slot     *)

ConcurrentRequests ==
    {[route |-> "POST /bg/remove", headers |-> ValidHeaders, file |-> ImageUpload,
      query |-> NoOptions, form |-> NoOptions],
     [route |-> "POST /bg/remove", headers |-> ValidHeaders,
      file |-> Some([filename |-> Some("b.jpg"), content_type |-> Some("image/jpeg"),
                     content |-> <<255>>]),
      query |-> [NoOptions EXCEPT !.model = Some("silueta")], form |-> NoOptions]}

InFlight == {j \in Slots : inflight[j].pc # "idle"}

\* the response of slot i reaches its thread, which counts it; the mocks
\* have counted the calls
DeliverThread(i) ==
    /\ inflight[i].pc = "done"
    /\ client' =
         [client EXCEPT
            !.delivered = @ + 1,
            !.ok = @ + (IF Resp(i).status_code = 200 THEN 1 ELSE 0),
            !.new_session_call_count = @ + CallCount(Calls(i), "new_session"),
            !.remove_call_count = @ + CallCount(Calls(i), "remove")]
    /\ inflight' = [inflight EXCEPT ![i] = IdleSlot]
    /\ UNCHANGED <<environ, API_KEY>>

\* a thread sends a request while others are still being handled
ArriveConcurrent ==
    /\ client.delivered + Cardinality(InFlight) < MaxRequests
    /\ \E i \in Slots, req \in ConcurrentRequests : Receive(i, req)

NextConcurrent ==
    \/ ArriveConcurrent
    \/ \E i \in Slots :
        \/ ValidateAndRead(i)
        \/ ImportRembg(i)
        \/ NewSession(i)
        \/ Remove(i)
        \/ DeliverThread(i)

SpecConcurrent == Init /\ [][NextConcurrent]_vars

-----------------------------------------------------------------------------
(* Authentication *)

\* C1: with a secret configured, a request to a protected endpoint whose
\* X-API-Key header is absent or empty is answered 401 'X-API-Key header is
\* required', whatever its file, content type and options are.
C1_MissingKeyRejected ==
    \A i \in Slots :
        (/\ Busy(i)
         /\ SecretConfigured
         /\ Req(i).route \in {"GET /models", "POST /bg/remove", "POST /bg/remove-advanced"}
         /\ KeyHeaderAbsentOrEmpty(Req(i)))
        => /\ Answered(i)
           /\ Resp(i).status_code = 401
           /\ Resp(i).body = [detail |-> "X-API-Key header is required"]

C1_Witness ==
    \E i \in Slots :
        /\ Answered(i)
        /\ SecretConfigured
        /\ Req(i).route = "POST /bg/remove"
        /\ Req(i).headers = << <<"X-API-Key", "">> >>
        /\ Req(i).file # None
        /\ Req(i).file[1].content_type = Some("image/png")
        /\ Req(i).query.model # None
        /\ Resp(i).status_code = 401

\* C2: with a secret configured, a request to a protected endpoint whose
\* X-API-Key header is present (non-empty) and differs from the secret is
\* answered 401 'Invalid API key'.
C2_WrongKeyRejected ==
    \A i \in Slots :
        (/\ Busy(i)
         /\ SecretConfigured
         /\ Req(i).route \in {"GET /models", "POST /bg/remove", "POST /bg/remove-advanced"}
         /\ \E k \in DOMAIN Req(i).headers :
                /\ Req(i).headers[k][1] \in KeyHeaderNames
                /\ Req(i).headers[k][2] # ""
                /\ Req(i).headers[k][2] # API_KEY[1])
        => /\ Answered(i)
           /\ Resp(i).status_code = 401
           /\ Resp(i).body = [detail |-> "Invalid API key"]

C2_Witness ==
    \E i \in Slots :
        /\ Answered(i)
        /\ SecretConfigured
        /\ Req(i).route = "GET /models"
        /\ Req(i).headers = << <<"X-API-Key", "wrong-key">> >>
        /\ Resp(i).body = [detail |-> "Invalid API key"]

\* C3: with a secret configured, a request to a protected endpoint passes
\* authentication exactly when its X-API-Key header, whose name is matched
\* in any letter case, has the configured secret as its value, letter for
\* letter.
C3_AcceptedIffExactKey ==
    \A i \in Slots :
        (/\ Busy(i)
         /\ SecretConfigured
         /\ Req(i).route \in {"GET /models", "POST /bg/remove", "POST /bg/remove-advanced"})
        => ((~Answered(i) \/ Resp(i).status_code # 401)
                <=> KeyHeaderIs(Req(i), API_KEY[1]))

C3_Witness ==
    \E i \in Slots :
        /\ Answered(i)
        /\ SecretConfigured
        /\ Req(i).route = "GET /models"
        /\ Req(i).headers = << <<"x-api-key", TestKey>> >>
        /\ Resp(i).status_code = 200

\* C4: with no secret configured, no request is answered 401, whatever its
\* X-API-Key header is; GET /models is answered 200.
C4_NoSecretAllowsAll ==
    API_KEY = None =>
        \A i \in Slots :
            (Busy(i) /\ Answered(i))
            => /\ Resp(i).status_code # 401
               /\ Req(i).route = "GET /models" => Resp(i).status_code = 200

C4_Witness ==
    \E i \in Slots :
        /\ API_KEY = None
        /\ Answered(i)
        /\ Req(i).route = "GET /models"
        /\ Req(i).headers = << <<"X-API-Key", "wrong-key">> >>
        /\ Resp(i).status_code = 200

\* C5: GET / and GET /health are answered 200 with their fixed JSON body,
\* whatever secret is configured and whatever header the request carries.
C5_PublicRoutesOpen ==
    \A i \in Slots :
        Busy(i) =>
            /\ Req(i).route = "GET /" =>
                /\ Answered(i)
                /\ Resp(i).status_code = 200
                /\ Resp(i).media_type = "application/json"
                /\ Resp(i).body = [message |-> "Python Remove Background Provider",
                                   status |-> "running"]
            /\ Req(i).route = "GET /health" =>
                /\ Answered(i)
                /\ Resp(i).status_code = 200
                /\ Resp(i).media_type = "application/json"
                /\ Resp(i).body = [status |-> "healthy",
                                   service |-> "python-remove-bg-provider"]

C5_Witness ==
    \E i \in Slots :
        /\ Answered(i)
        /\ SecretConfigured
        /\ Req(i).route = "GET /health"
        /\ Req(i).headers = << <<"X-API-Key", "wrong-key">> >>
        /\ Resp(i).status_code = 200

-----------------------------------------------------------------------------
(* Upload validation, binding and the success response *)

\* C6: an authenticated POST /bg/remove with a file whose declared content
\* type is absent or does not start with 'image/' is answered 400 'File must
\* be an image'; the payload is never read and rembg is never called.
C6_NonImageRejected ==
    \A i \in Slots :
        (/\ Busy(i)
         /\ Req(i).route = "POST /bg/remove"
         /\ Authenticated(Req(i))
         /\ Req(i).file # None
         /\ ~DeclaredImage(Req(i).file[1]))
        => /\ inflight[i].pc \in {"remove_background", "done"}
           /\ inflight[i].file_content = None
           /\ Calls(i) = <<>>
           /\ Answered(i) =>
                /\ Resp(i).status_code = 400
                /\ Resp(i).body = [detail |-> "File must be an image"]

C6_Witness ==
    \E i \in Slots :
        /\ Answered(i)
        /\ SecretConfigured
        /\ Req(i).route = "POST /bg/remove"
        /\ Authenticated(Req(i))
        /\ Req(i).file # None
        /\ Req(i).file[1].content_type = Some("text/plain")
        /\ Req(i).file[1].content # <<>>
        /\ Resp(i).status_code = 400

\* C7: a 200 response of POST /bg/remove has content type 'image/png' and
\* the output of rembg's remove as its body, whatever the declared content
\* type of the upload was.
C7_SuccessIsPng ==
    \A i \in Slots :
        RemoveSucceeded(i)
        => /\ Resp(i).media_type = "image/png"
           /\ Len(Calls(i)) = 2
           /\ Calls(i)[2].fn = "remove"
           /\ ~Calls(i)[2].outcome.raised
           /\ Resp(i).body = Calls(i)[2].outcome.value

C7_Witness ==
    \E i \in Slots :
        /\ RemoveSucceeded(i)
        /\ Req(i).file[1].content_type = Some("image/jpeg")
        /\ Resp(i).body # <<>>

\* C8: on a 200 response of POST /bg/remove, X-Model-Used is the model bound
\* for the request, which is the name rembg's session was created with; it is
\* 'u2net' when the request names no model.
C8_ModelUsedHeader ==
    \A i \in Slots :
        RemoveSucceeded(i)
        => /\ Resp(i).headers["X-Model-Used"] = inflight[i].args[1].model
           /\ Calls(i)[1].fn = "new_session"
           /\ Calls(i)[1].args = <<Resp(i).headers["X-Model-Used"]>>
           /\ Calls(i)[2].kwargs.session.model_name = Resp(i).headers["X-Model-Used"]
           /\ (Req(i).query.model = None /\ Req(i).form.model = None)
                => Resp(i).headers["X-Model-Used"] = "u2net"

C8_Witness ==
    \E i \in Slots :
        /\ RemoveSucceeded(i)
        /\ Req(i).query.model = Some("silueta")
        /\ Calls(i)[1].args = <<"silueta">>
        /\ Resp(i).headers["X-Model-Used"] = "silueta"

\* C9: options sent as multipart form fields are the values bound: a form
\* field model=M makes the session be created with M and X-Model-Used be M,
\* and a form field alpha_matting=true makes remove be called with alpha
\* matting.
C9_FormFieldsBound ==
    \A i \in Slots :
        (/\ Answered(i)
         /\ Req(i).route \in {"POST /bg/remove", "POST /bg/remove-advanced"}
         /\ Resp(i).status_code = 200)
        => /\ Req(i).form.model # None =>
                /\ Calls(i)[1].args = Req(i).form.model
                /\ Resp(i).headers["X-Model-Used"] = Req(i).form.model[1]
           /\ Req(i).form.alpha_matting = Some(TRUE) =>
                /\ "alpha_matting" \in DOMAIN Calls(i)[2].kwargs
                /\ Calls(i)[2].kwargs.alpha_matting

\* C10: an authenticated POST /bg/remove without a file part is answered 422
\* and rembg is not called.
C10_MissingFileIs422 ==
    \A i \in Slots :
        (/\ Busy(i)
         /\ Req(i).route = "POST /bg/remove"
         /\ Authenticated(Req(i))
         /\ Req(i).file = None)
        => /\ Answered(i)
           /\ Resp(i).status_code = 422
           /\ Calls(i) = <<>>

C10_Witness ==
    \E i \in Slots :
        /\ Answered(i)
        /\ SecretConfigured
        /\ Req(i).route = "POST /bg/remove"
        /\ Authenticated(Req(i))
        /\ Req(i).file = None
        /\ Resp(i).status_code = 422

-----------------------------------------------------------------------------
(* Failures of the collaborator *)

\* C11: when new_session or remove raises an exception for an authenticated
\* image upload, the response is 500 and its detail is 'Error processing
\* image: ' followed by the text of the exception.
C11_CollaboratorErrorIs500 ==
    \A i \in Slots :
        (/\ Busy(i)
         /\ Calls(i) # <<>>
         /\ Calls(i)[Len(Calls(i))].outcome.raised)
        => /\ Authenticated(Req(i))
           /\ DeclaredImage(Req(i).file[1])
           /\ Answered(i)
           /\ Resp(i).status_code = 500
           /\ Resp(i).body =
                [detail |-> "Error processing image: "
                            \o Calls(i)[Len(Calls(i))].outcome.exc.text]

C11_Witness ==
    \E i \in Slots :
        /\ Answered(i)
        /\ SecretConfigured
        /\ Len(Calls(i)) = 2
        /\ Calls(i)[2].fn = "remove"
        /\ Calls(i)[2].outcome = Raised(Exception("Processing failed"))
        /\ Resp(i).status_code = 500
        /\ Resp(i).body = [detail |-> "Error processing image: Processing failed"]

-----------------------------------------------------------------------------
(* Headers of the success response *)

\* C14: a 200 response of POST /bg/remove carries Content-Disposition
\* 'attachment; filename=bg_removed_<name>', where <name> is the filename of
\* the upload, or 'image' when the upload has no filename or an empty one.
C14_ContentDisposition ==
    \A i \in Slots :
        RemoveSucceeded(i)
        => Resp(i).headers["Content-Disposition"] =
             "attachment; filename=bg_removed_"
             \o (IF Req(i).file[1].filename \in {None, Some("")}
                 THEN "image" ELSE Req(i).file[1].filename[1])

\* C15: a 200 response of POST /bg/remove carries X-Original-Filename equal
\* to the filename of the upload, or 'image' when the upload has no filename
\* or an empty one.
C15_OriginalFilename ==
    \A i \in Slots :
        RemoveSucceeded(i)
        => Resp(i).headers["X-Original-Filename"] =
             (IF Req(i).file[1].filename \in {None, Some("")}
              THEN "image" ELSE Req(i).file[1].filename[1])

C15_Witness ==
    \E i \in Slots :
        /\ RemoveSucceeded(i)
        /\ Req(i).file[1].filename = None
        /\ Resp(i).headers["X-Original-Filename"] = "image"

-----------------------------------------------------------------------------
(* The shape of error responses *)

ErrorStatuses == {400, 401, 422, 500}

\* C20 as stated: every 401, 400, 422 and 500 response is a JSON object
\* whose detail member is a string.
C20_ErrorDetailIsString ==
    \A i \in Slots :
        (Answered(i) /\ Resp(i).status_code \in ErrorStatuses)
        => /\ Resp(i).media_type = "application/json"
           /\ "detail" \in DOMAIN Resp(i).body
           /\ IsJsonString(Resp(i).body.detail)

\* C20: every 401, 400, 422 and 500 response is a JSON object with the one
\* member detail; detail is a string on 401, 400 and 500, and a non-empty
\* list of error objects on 422.
C20_ErrorDetailShape ==
    \A i \in Slots :
        (Answered(i) /\ Resp(i).status_code \in ErrorStatuses)
        => /\ Resp(i).media_type = "application/json"
           /\ DOMAIN Resp(i).body = {"detail"}
           /\ IF Resp(i).status_code = 422
              THEN /\ ~IsJsonString(Resp(i).body.detail)
                   /\ Len(Resp(i).body.detail) >= 1
                   /\ \A k \in 1..Len(Resp(i).body.detail) :
                        {"type", "loc"} \subseteq DOMAIN Resp(i).body.detail[k]
              ELSE IsJsonString(Resp(i).body.detail)

C20_Witness ==
    \E i \in Slots :
        /\ Answered(i)
        /\ Resp(i).status_code = 422
        /\ Req(i).route = "POST /bg/remove-advanced"
        /\ ~IsJsonString(Resp(i).body.detail)

-----------------------------------------------------------------------------
(* The alias endpoint *)

\* C16: a request sent to POST /bg/remove and to POST /bg/remove-advanced,
\* with rembg behaving the same for both, gets the same status, headers and
\* body from both, and both call rembg with the same arguments the same
\* number of times.
C16_AdvancedIsAlias ==
    (/\ Answered(1) /\ Answered(2)
     /\ Req(1).route = "POST /bg/remove"
     /\ Req(2) = [Req(1) EXCEPT !.route = "POST /bg/remove-advanced"]
     /\ Behaviour(1) = Behaviour(2))
    => /\ Resp(1) = Resp(2)
       /\ Invocations(1) = Invocations(2)

C16_Witness ==
    /\ Answered(1) /\ Answered(2)
    /\ SecretConfigured
    /\ Req(1).route = "POST /bg/remove"
    /\ Req(2) = [Req(1) EXCEPT !.route = "POST /bg/remove-advanced"]
    /\ Req(1).query.model = Some("silueta")
    /\ Req(1).query.alpha_matting = Some(TRUE)
    /\ Resp(2).status_code = 200
    /\ Resp(2).headers["X-Model-Used"] = "silueta"
    /\ Resp(1) = Resp(2)
    /\ Len(Invocations(2)) = 2
    /\ Invocations(2)[2].kwargs.alpha_matting_erode_size = 0

-----------------------------------------------------------------------------
(* One attempt per request, independence and statelessness *)

\* C17: each request creates at most one session and calls remove at most
\* once, exactly once each when it is answered 200; a call that raised is
\* the last call of its request; over the requests delivered so far the
\* mocks count no more sessions than requests and no more removals than
\* sessions, and when all N of them were successful uploads, N sessions and
\* N removals.
C17_SingleAttempt ==
    /\ \A i \in Slots :
        /\ CallCount(Calls(i), "new_session") <= 1
        /\ CallCount(Calls(i), "remove") <= 1
        /\ \A k \in DOMAIN Calls(i) :
              Calls(i)[k].outcome.raised
              => k = Len(Calls(i)) /\ inflight[i].pc = "done"
        /\ (/\ Answered(i)
            /\ Req(i).route \in UploadRoutes
            /\ Resp(i).status_code = 200)
           => /\ CallCount(Calls(i), "new_session") = 1
              /\ CallCount(Calls(i), "remove") = 1
    /\ client.ok <= client.remove_call_count
    /\ client.remove_call_count <= client.new_session_call_count
    /\ client.new_session_call_count <= client.delivered
    /\ client.ok = client.delivered
        => /\ client.new_session_call_count = client.delivered
           /\ client.remove_call_count = client.delivered

\* three successful uploads, as in test_multiple_requests_same_client
C17_Witness ==
    /\ client.delivered = 3
    /\ client.ok = 3
    /\ client.new_session_call_count = 3
    /\ client.remove_call_count = 3

\* C18: however concurrently handled requests interleave, each request
\* works on its own arguments, file content and session; when rembg
\* succeeds for it the request is answered 200 with X-Model-Used and the
\* filename headers of that same request and the output of its own call of
\* remove; two requests in flight that are equal and for which rembg
\* behaved the same get the same response; N successful requests make N
\* removals.
C18_RequestsIndependent ==
    /\ \A i \in Slots :
        Busy(i) =>
            /\ Req(i).route = "POST /bg/remove"
            /\ inflight[i].args = Some(BindArguments(Req(i)))
            /\ inflight[i].file_content \in {None, Some(Req(i).file[1].content)}
            /\ inflight[i].session \in
                    {None, Some(Session(inflight[i].args[1].model, i))}
            /\ \A k \in DOMAIN Calls(i) :
                  IF Calls(i)[k].fn = "new_session"
                  THEN Calls(i)[k].args = <<inflight[i].args[1].model>>
                  ELSE /\ Calls(i)[k].args = <<Req(i).file[1].content>>
                       /\ Calls(i)[k].kwargs.session =
                              Session(inflight[i].args[1].model, i)
            /\ (/\ Len(Calls(i)) = 2
                /\ ~Calls(i)[2].outcome.raised)
               => /\ Answered(i)
                  /\ Resp(i).status_code = 200
                  /\ Resp(i).headers["X-Model-Used"] = inflight[i].args[1].model
                  /\ Resp(i).headers["X-Original-Filename"] = Req(i).file[1].filename[1]
                  /\ Resp(i).headers["Content-Disposition"] =
                        "attachment; filename=bg_removed_" \o Req(i).file[1].filename[1]
                  /\ Resp(i).body = Calls(i)[2].outcome.value
    /\ \A i, j \in Slots :
        (/\ Answered(i) /\ Answered(j)
         /\ Req(i) = Req(j)
         /\ Behaviour(i) = Behaviour(j))
        => Resp(i) = Resp(j)
    /\ client.ok = client.delivered => client.remove_call_count = client.delivered

\* two requests answered 200 side by side, each with its own headers
C18_Witness ==
    /\ Answered(1) /\ Answered(2)
    /\ Resp(1).status_code = 200 /\ Resp(2).status_code = 200
    /\ Req(1).query.model = None
    /\ Req(2).query.model = Some("silueta")
    /\ Resp(1).headers["X-Model-Used"] = "u2net"
    /\ Resp(2).headers["X-Model-Used"] = "silueta"
    /\ Resp(1).headers["X-Original-Filename"] = "a.png"
    /\ Resp(2).headers["X-Original-Filename"] = "b.jpg"
    /\ client.delivered = 1 /\ client.remove_call_count = 1

\* C19: after any requests delivered earlier, a request that equals the
\* first one, with rembg behaving as it did then, is answered as the first
\* one was; GET /health is answered 200, and a request with the right key
\* is not answered 401 whatever was answered before.
C19_Stateless ==
    \A i \in Slots :
        (Answered(i) /\ client.first # None) =>
            /\ (/\ Req(i) = client.first[1].req
                /\ Behaviour(i) = client.first[1].behaviour)
               => Resp(i) = client.first[1].resp
            /\ Req(i).route = "GET /health" => Resp(i).status_code = 200
            /\ Authenticated(Req(i)) => Resp(i).status_code # 401

\* the first request again, after a request answered 401
C19_Witness ==
    /\ Answered(1)
    /\ SecretConfigured
    /\ client.delivered = 2
    /\ 401 \in client.seen
    /\ Req(1) = client.first[1].req
    /\ Req(1).route = "POST /bg/remove"
    /\ Behaviour(1) = client.first[1].behaviour
    /\ Resp(1).status_code = 200

-----------------------------------------------------------------------------
(* What rembg is called with *)

\* C21: whenever remove is called with the foreground threshold, the
\* background threshold and the erode size, they are the values bound from
\* the request, unchanged, negative values and values above 255 included;
\* they are passed whenever alpha matting is bound true.
C21_NoClamping ==
    \A i \in Slots : \A k \in DOMAIN Calls(i) :
        Calls(i)[k].fn = "remove" =>
            /\ Bound(Req(i), "alpha_matting", DefaultAlphaMatting)
                => "alpha_matting_foreground_threshold" \in DOMAIN Calls(i)[k].kwargs
            /\ "alpha_matting_foreground_threshold" \in DOMAIN Calls(i)[k].kwargs
                => /\ Calls(i)[k].kwargs.alpha_matting_foreground_threshold =
                        Bound(Req(i), "alpha_matting_foreground_threshold",
                              DefaultForegroundThreshold)
                   /\ Calls(i)[k].kwargs.alpha_matting_background_threshold =
                        Bound(Req(i), "alpha_matting_background_threshold",
                              DefaultBackgroundThreshold)
                   /\ Calls(i)[k].kwargs.alpha_matting_erode_size =
                        Bound(Req(i), "alpha_matting_erode_size", DefaultErodeSize)

C21_Witness ==
    \E i \in Slots :
        /\ Len(Calls(i)) = 2
        /\ Req(i).query.alpha_matting_foreground_threshold = Some(-5)
        /\ Req(i).query.alpha_matting_background_threshold = Some(300)
        /\ "alpha_matting" \in DOMAIN Calls(i)[2].kwargs
        /\ Calls(i)[2].kwargs.alpha_matting_foreground_threshold = -5
        /\ Calls(i)[2].kwargs.alpha_matting_background_threshold = 300

\* C22: the bytes handed to remove are never empty: a request whose upload
\* has zero bytes does not reach the call of remove.
C22_NeverEmptyBytes ==
    \A i \in Slots : \A k \in DOMAIN Calls(i) :
        Calls(i)[k].fn = "remove" =>
            /\ Calls(i)[k].args[1] # <<>>
            /\ Req(i).file[1].content # <<>>

\* C23: a model name that GET /models does not list, the empty string
\* included, is bound as it is: the gateway does not reject the request
\* for it (the answer is 200, or 500 when rembg cannot be imported or a
\* call of it raises) and new_session receives that exact string.
C23_ModelNotValidated ==
    \A i \in Slots :
        (/\ Busy(i)
         /\ Req(i).route \in UploadRoutes
         /\ Authenticated(Req(i))
         /\ Req(i).file # None
         /\ DeclaredImage(Req(i).file[1])
         /\ Req(i).query.model # None
         /\ Req(i).query.model[1] \notin ListedModels)
        => /\ inflight[i].args # None
           /\ inflight[i].args[1].model = Req(i).query.model[1]
           /\ Calls(i) # <<>> =>
                /\ Calls(i)[1].fn = "new_session"
                /\ Calls(i)[1].args = <<Req(i).query.model[1]>>
           /\ Answered(i) =>
                /\ Resp(i).status_code \in {200, 500}
                /\ Resp(i).status_code = 500
                    => \/ inflight[i].imported = Some(FALSE)
                       \/ Calls(i)[Len(Calls(i))].outcome.raised

C23_Witness ==
    \E i \in Slots :
        /\ Answered(i)
        /\ Resp(i).status_code = 200
        /\ Req(i).query.model = Some("")
        /\ "" \notin ListedModels
        /\ Calls(i)[1].args = <<"">>
        /\ Resp(i).headers["X-Model-Used"] = ""

\* C28: when alpha matting is bound false, remove is called with the file
\* content and the session only; the thresholds and the erode size of the
\* request are not passed, whatever they are.
C28_NoAlphaNoThresholds ==
    \A i \in Slots : \A k \in DOMAIN Calls(i) :
        (/\ Calls(i)[k].fn = "remove"
         /\ ~Bound(Req(i), "alpha_matting", DefaultAlphaMatting))
        => /\ Calls(i)[k].args = <<Req(i).file[1].content>>
           /\ Calls(i)[k].kwargs = [session |-> inflight[i].session[1]]

C28_Witness ==
    \E i \in Slots :
        /\ Len(Calls(i)) = 2
        /\ Req(i).query.alpha_matting = None
        /\ Req(i).query.alpha_matting_foreground_threshold = Some(-5)
        /\ Req(i).query.alpha_matting_erode_size = Some(0)
        /\ DOMAIN Calls(i)[2].kwargs = {"session"}

\* C29: within a request new_session is called before remove, remove is
\* called with the session that request's new_session returned, and when
\* new_session raises remove is not called.
C29_SessionBeforeRemove ==
    \A i \in Slots :
        /\ Calls(i) # <<>> => Calls(i)[1].fn = "new_session"
        /\ \A k \in DOMAIN Calls(i) :
              Calls(i)[k].fn = "remove" =>
                /\ k = 2
                /\ ~Calls(i)[1].outcome.raised
                /\ Calls(i)[k].kwargs.session = Calls(i)[1].outcome.value
                /\ Calls(i)[k].kwargs.session.created_by = i
        /\ (Calls(i) # <<>> /\ Calls(i)[1].outcome.raised) =>
                /\ Len(Calls(i)) = 1
                /\ inflight[i].pc = "done"
                /\ Resp(i).status_code = 500

C29_Witness ==
    \E i \in Slots :
        /\ Len(Calls(i)) = 2
        /\ Calls(i)[1].outcome = Returned(Session("silueta", i))
        /\ Calls(i)[2].fn = "remove"
        /\ Calls(i)[2].kwargs.session = Session("silueta", i)

-----------------------------------------------------------------------------
(* What is answered, and when rembg is reached *)

SuccessHeaders == {"Content-Disposition", "X-Original-Filename", "X-Model-Used"}

\* C25: a response of POST /bg/remove is either a 200 whose body is the
\* whole output of remove and that carries Content-Disposition,
\* X-Original-Filename and X-Model-Used, or an error response, which is a
\* JSON object with none of these headers.
C25_NoPartialResponse ==
    \A i \in Slots :
        (Answered(i) /\ Req(i).route = "POST /bg/remove") =>
            IF Resp(i).status_code = 200
            THEN /\ Len(Calls(i)) = 2
                 /\ ~Calls(i)[2].outcome.raised
                 /\ Resp(i).body = Calls(i)[2].outcome.value
                 /\ Len(Resp(i).body) = Len(Calls(i)[2].outcome.value)
                 /\ SuccessHeaders \subseteq DOMAIN Resp(i).headers
            ELSE /\ Resp(i).status_code \in ErrorStatuses
                 /\ Resp(i).media_type = "application/json"
                 /\ DOMAIN Resp(i).headers \cap SuccessHeaders = {}
                 /\ DOMAIN Resp(i).body = {"detail"}

C25_Witness ==
    \E i \in Slots :
        /\ Answered(i)
        /\ Req(i).route = "POST /bg/remove"
        /\ Len(Calls(i)) = 2
        /\ Calls(i)[2].outcome = Raised(Exception("Processing failed"))
        /\ Resp(i).status_code = 500
        /\ DOMAIN Resp(i).headers = {}

\* C27: new_session and remove are called only for requests that passed
\* authentication and whose file has a declared content type starting with
\* 'image/'; a request answered 401, 400 or 422 made no call of rembg; a
\* non-image upload is answered 400 before the import of rembg is tried.
C27_CallsOnlyForValidUploads ==
    \A i \in Slots :
        Busy(i) =>
            /\ (Calls(i) # <<>> \/ inflight[i].imported # None) =>
                /\ Req(i).route \in UploadRoutes
                /\ Authenticated(Req(i))
                /\ Req(i).file # None
                /\ DeclaredImage(Req(i).file[1])
            /\ (Answered(i) /\ Resp(i).status_code \in {400, 401, 422}) =>
                /\ Calls(i) = <<>>
                /\ inflight[i].imported = None
            /\ (/\ Answered(i)
                /\ Req(i).route \in UploadRoutes
                /\ Authenticated(Req(i))
                /\ Req(i).file # None
                /\ ~DeclaredImage(Req(i).file[1])) =>
                /\ Resp(i).status_code = 400
                /\ inflight[i].imported = None

C27_Witness ==
    \E i \in Slots :
        /\ Answered(i)
        /\ Req(i).route = "POST /bg/remove-advanced"
        /\ Authenticated(Req(i))
        /\ Req(i).file # None
        /\ Req(i).file[1].content_type = None
        /\ Resp(i).status_code = 400
        /\ inflight[i].imported = None
        /\ Calls(i) = <<>>

-----------------------------------------------------------------------------
(* The empty secret *)

\* C30: with X_API_KEY set to the empty string no request is answered 401
\* and every request is routed as it is when the variable is unset; GET
\* /models is answered 200.
C30_EmptySecretIsNoSecret ==
    (environ = Some("") /\ API_KEY = Some("")) =>
        \A i \in Slots :
            Busy(i) =>
                /\ Answered(i) => Resp(i).status_code # 401
                /\ Req(i).route = "GET /models" =>
                      Answered(i) /\ Resp(i).status_code = 200
                /\ Dispatch(Req(i), API_KEY) = Dispatch(Req(i), getenv(None))

C30_Witness ==
    \E i \in Slots :
        /\ environ = Some("")
        /\ Answered(i)
        /\ Req(i).route = "POST /bg/remove"
        /\ Req(i).headers = << <<"X-API-Key", "wrong-key">> >>
        /\ Resp(i).status_code = 200

-----------------------------------------------------------------------------
(* The secret and the environment *)

\* no change of the environment has changed an answer: the global is what
\* it was, a protected route answers 401 exactly to requests without the
\* secret read at start, and a request equal to the first one is answered as
\* the first one was
AnswersUnchanged ==
    \A i \in Slots :
        Answered(i) =>
            /\ RequiresApiKey(Req(i).route) =>
                  (Resp(i).status_code = 401 <=> ~Authenticated(Req(i)))
            /\ (/\ client.first # None
                /\ Req(i) = client.first[1].req
                /\ Behaviour(i) = client.first[1].behaviour)
               => Resp(i) = client.first[1].resp

\* C24: the secret is read once, at start: no step changes API_KEY, and
\* setting or clearing X_API_KEY while the service runs leaves every later
\* authentication decision as it was before the change.
C24_SecretReadOnce ==
    /\ [][API_KEY' = API_KEY]_vars
    /\ []AnswersUnchanged

\* the variable was cleared after the first answer, and the key is still required
C24_Witness ==
    /\ API_KEY = Some(TestKey)
    /\ environ = None
    /\ Answered(1)
    /\ client.first # None
    /\ Req(1) = client.first[1].req
    /\ Req(1).route = "GET /models"
    /\ Resp(1).status_code = 401
    /\ Resp(1) = client.first[1].resp

-----------------------------------------------------------------------------
(* Termination *)

\* C26: every request that has arrived is eventually answered, rembg
\* returning or raising at each call; its response, once set, stays the
\* same until it is delivered, and delivery empties the slot.
C26_EveryRequestAnswered ==
    /\ \A i \in Slots : Busy(i) ~> Answered(i)
    /\ [][\A i \in Slots :
            Answered(i) => \/ inflight'[i].resp = inflight[i].resp
                           \/ inflight'[i] = IdleSlot]_vars

C26_Witness ==
    /\ Answered(1)
    /\ client.delivered = 2
    /\ Len(Calls(1)) = 2
    /\ Calls(1)[2].outcome.raised
    /\ Resp(1).status_code = 500

====
